---------------------------- MODULE Spec2Model ----------------------------
(***************************************************************************)
(* Model of the data download core of lean-cli:                            *)
(*   lean/models/data.py                     (taxonomy, path resolution)   *)
(*   lean/components/cloud/data_downloader.py (date enumeration, planning, *)
(*                                             batch download, overwrite)  *)
(*                                                                         *)
(* Conventions.                                                            *)
(*   - A Python str is a sequence of one-character strings, so that        *)
(*     str.lower() and strftime() are computed character by character.     *)
(*   - A pathlib.Path is the sequence of its segments; as_posix() joins    *)
(*     them with "/".  Tickers and markets are non-empty and hold no "/".  *)
(*   - Optional[T] is a sequence of length <= 1: None is << >>.            *)
(*   - A datetime is its day number counted from Epoch; every datetime the *)
(*     program builds for a data date, an expiry or a holiday is at        *)
(*     midnight (strptime of a date-only format).                          *)
(*   - A raised exception is a value: field "raised" names its class.      *)
(***************************************************************************)
EXTENDS Integers, Sequences, FiniteSets, TLC

VARIABLES
    products,         \* download_products: the list of products of the batch
    overwrite_flag,   \* download_products: the --overwrite flag of the run
    force_overwrite,  \* DataDownloader._force_overwrite (None, True or False)
    fs,               \* relative paths that exist under the local data directory
    pidx,             \* download_products: number of products started
    files,            \* _download_files: the plan of the current product
    fidx,             \* _download_files: number of files of the plan handled
    prompts,          \* number of calls of click.confirm in _should_overwrite
    links,            \* relative paths passed to api_client.data.get_link
    log,              \* one record per _download_file call, in call order
    pc,               \* position of the run
    arg,              \* the arguments of the function under study (pure specifications)
    ret               \* its result

vars == <<products, overwrite_flag, force_overwrite, fs, pidx, files, fidx,
          prompts, links, log, pc, arg, ret>>

-----------------------------------------------------------------------------
(* Optional values *)

None == << >>

Some(x) == << x >>

IsNone(o) == o = << >>

Val(o) == o[1]

-----------------------------------------------------------------------------
(* Strings *)

UpperCase == << "A","B","C","D","E","F","G","H","I","J","K","L","M",
                "N","O","P","Q","R","S","T","U","V","W","X","Y","Z" >>

LowerCase == << "a","b","c","d","e","f","g","h","i","j","k","l","m",
                "n","o","p","q","r","s","t","u","v","w","x","y","z" >>

LowerChar(c) ==
    IF \E i \in 1..26 : UpperCase[i] = c
    THEN LowerCase[CHOOSE i \in 1..26 : UpperCase[i] = c]
    ELSE c

\* str.lower()
Lower(s) == [i \in 1..Len(s) |-> LowerChar(s[i])]

\* the characters of a str as one TLA+ string, to compare with literals
RECURSIVE Str(_)
Str(s) == IF s = << >> THEN "" ELSE s[1] \o Str(Tail(s))

\* "/".join(segments): Path.as_posix() of a relative path
RECURSIVE AsPosix(_)
AsPosix(p) ==
    IF p = << >> THEN << >>
    ELSE IF Len(p) = 1 THEN p[1]
    ELSE p[1] \o << "/" >> \o AsPosix(Tail(p))

\* Path / str for a relative str: an empty str adds no segment
PathDiv(p, s) == IF s = << >> THEN p ELSE Append(p, s)

-----------------------------------------------------------------------------
(* Dates *)

\* Day 0 of the model's calendar: Monday 2020-06-15, the data date of the
\* repository's path tests.  wd is datetime.weekday(): Monday is 0.
Epoch == [y |-> 2020, m |-> 6, d |-> 15, wd |-> 0]

IsLeap(y) == (y % 4 = 0 /\ y % 100 # 0) \/ y % 400 = 0

DaysInMonth(y, m) ==
    IF m = 2 THEN (IF IsLeap(y) THEN 29 ELSE 28)
    ELSE IF m \in {4, 6, 9, 11} THEN 30 ELSE 31

NextDay(c) ==
    IF c.d < DaysInMonth(c.y, c.m) THEN [y |-> c.y, m |-> c.m, d |-> c.d + 1]
    ELSE IF c.m < 12 THEN [y |-> c.y, m |-> c.m + 1, d |-> 1]
    ELSE [y |-> c.y + 1, m |-> 1, d |-> 1]

\* year, month and day of day number n
RECURSIVE Civil(_)
Civil(n) == IF n = 0 THEN [y |-> Epoch.y, m |-> Epoch.m, d |-> Epoch.d]
            ELSE NextDay(Civil(n - 1))

\* datetime.weekday() of day number n
Weekday(n) == (Epoch.wd + n) % 7

Digits == << "0","1","2","3","4","5","6","7","8","9" >>

Digit(k) == Digits[k + 1]

\* datetime.strftime("%Y%m%d")
Strftime(n) ==
    LET c == Civil(n) IN
    << Digit(c.y \div 1000), Digit((c.y \div 100) % 10),
       Digit((c.y \div 10) % 10), Digit(c.y % 10),
       Digit(c.m \div 10), Digit(c.m % 10),
       Digit(c.d \div 10), Digit(c.d % 10) >>

-----------------------------------------------------------------------------
(* Taxonomy: lean/models/data.py *)

SecurityTypes == { "CFD", "Crypto", "Equity", "EquityOption", "Forex",
                   "Future", "FutureOption", "Index", "IndexOption" }

Resolutions == { "Tick", "Second", "Minute", "Hour", "Daily" }

OptionStyles == { "American", "European" }

\* SecurityType.get_internal_name
get_internal_name(security_type) ==
    CASE security_type = "CFD" -> << "C","f","d" >>
      [] security_type = "Crypto" -> << "C","r","y","p","t","o" >>
      [] security_type = "Equity" -> << "E","q","u","i","t","y" >>
      [] security_type = "EquityOption" -> << "O","p","t","i","o","n" >>
      [] security_type = "Forex" -> << "F","o","r","e","x" >>
      [] security_type = "Future" -> << "F","u","t","u","r","e" >>
      [] security_type = "FutureOption" -> << "F","u","t","u","r","e","O","p","t","i","o","n" >>
      [] security_type = "Index" -> << "I","n","d","e","x" >>
      [] security_type = "IndexOption" -> << "I","n","d","e","x","O","p","t","i","o","n" >>

\* DataType.<member>.name
DataTypeName(data_type) ==
    CASE data_type = "Trade" -> << "T","r","a","d","e" >>
      [] data_type = "Quote" -> << "Q","u","o","t","e" >>
      [] data_type = "OpenInterest" -> << "O","p","e","n","I","n","t","e","r","e","s","t" >>
      [] data_type = "MapFactor" -> << "M","a","p","F","a","c","t","o","r" >>
      [] data_type = "Coarse" -> << "C","o","a","r","s","e" >>

\* OptionStyle.<member>.name
OptionStyleName(option_style) ==
    CASE option_style = "American" -> << "A","m","e","r","i","c","a","n" >>
      [] option_style = "European" -> << "E","u","r","o","p","e","a","n" >>

\* QCResolution.<member>.value, as the expected paths of the tests spell it
ResolutionValue(resolution) ==
    CASE resolution = "Tick" -> << "T","i","c","k" >>
      [] resolution = "Second" -> << "S","e","c","o","n","d" >>
      [] resolution = "Minute" -> << "M","i","n","u","t","e" >>
      [] resolution = "Hour" -> << "H","o","u","r" >>
      [] resolution = "Daily" -> << "D","a","i","l","y" >>

-----------------------------------------------------------------------------
(* Path resolution: SecurityDataProduct.get_relative_path *)

DotZip == << ".","z","i","p" >>

Underscore == << "_" >>

\* str(None), what an f-string puts for a None value
NoneStr == << "N","o","n","e" >>

Returned(v) == [raised |-> "", value |-> v]

Raised(e) == [raised |-> e, value |-> << >>]

is_hour_or_daily(product) ==
    product.resolution = "Hour" \/ product.resolution = "Daily"

\* get_relative_zip_file_directory with the market segment not lowercased
get_relative_zip_file_directory_MarketAsGiven(product, expiry_date) ==
    LET type_name == Lower(get_internal_name(product.security_type))
        base_directory ==
            PathDiv(PathDiv(<< type_name >>, product.market),
                    Lower(ResolutionValue(product.resolution)))
    IN  IF is_hour_or_daily(product)
        THEN Returned(base_directory)
        ELSE IF product.security_type = "FutureOption"
        THEN IF IsNone(expiry_date)
             THEN Raised("AttributeError")
             ELSE Returned(PathDiv(PathDiv(base_directory, Lower(product.ticker)),
                                   Strftime(Val(expiry_date))))
        ELSE Returned(PathDiv(base_directory, Lower(product.ticker)))

\* get_relative_zip_file_directory appending the expiry date whenever one is given
get_relative_zip_file_directory_AnyExpiry(product, expiry_date) ==
    LET type_name == Lower(get_internal_name(product.security_type))
        base_directory ==
            PathDiv(PathDiv(<< type_name >>, Lower(product.market)),
                    Lower(ResolutionValue(product.resolution)))
    IN  IF is_hour_or_daily(product)
        THEN Returned(base_directory)
        ELSE IF IsNone(expiry_date)
        THEN IF product.security_type = "FutureOption"
             THEN Raised("AttributeError")
             ELSE Returned(PathDiv(base_directory, Lower(product.ticker)))
        ELSE Returned(PathDiv(PathDiv(base_directory, Lower(product.ticker)),
                              Strftime(Val(expiry_date))))

\* SecurityDataProduct._get_relative_zip_file_directory
get_relative_zip_file_directory(product, expiry_date) ==
    LET type_name == Lower(get_internal_name(product.security_type))
        base_directory ==
            PathDiv(PathDiv(<< type_name >>, Lower(product.market)),
                    Lower(ResolutionValue(product.resolution)))
    IN  IF is_hour_or_daily(product)
        THEN Returned(base_directory)
        ELSE IF product.security_type \in
                    { "CFD", "Crypto", "Equity", "EquityOption", "Forex",
                      "Future", "Index", "IndexOption" }
        THEN Returned(PathDiv(base_directory, Lower(product.ticker)))
        ELSE IF product.security_type = "FutureOption"
        THEN IF IsNone(expiry_date)
             THEN Raised("AttributeError")   \* None has no strftime
             ELSE Returned(PathDiv(PathDiv(base_directory, Lower(product.ticker)),
                                   Strftime(Val(expiry_date))))
        ELSE Raised("ValueError")

\* get_zip_file_name naming Crypto and Future hourly and daily files like Equity ones
get_zip_file_name_TickerOnly(product, data_date) ==
    LET tick_type == Lower(DataTypeName(product.data_type))
        formatted_date ==
            IF IsNone(data_date) THEN NoneStr ELSE Strftime(Val(data_date))
        ticker == Lower(product.ticker)
    IN  IF product.security_type \in
               { "CFD", "Equity", "Forex", "Index", "Crypto", "Future" }
        THEN IF is_hour_or_daily(product)
             THEN Returned(ticker \o DotZip)
             ELSE Returned(formatted_date \o Underscore \o tick_type \o DotZip)
        ELSE IF IsNone(product.option_style)
        THEN Raised("AttributeError")
        ELSE IF is_hour_or_daily(product)
        THEN Returned(ticker \o Underscore \o tick_type \o Underscore
                      \o Lower(OptionStyleName(Val(product.option_style))) \o DotZip)
        ELSE Returned(formatted_date \o Underscore \o tick_type \o Underscore
                      \o Lower(OptionStyleName(Val(product.option_style))) \o DotZip)

\* SecurityDataProduct._get_zip_file_name
get_zip_file_name(product, data_date) ==
    LET tick_type == Lower(DataTypeName(product.data_type))
        formatted_date ==
            IF IsNone(data_date) THEN NoneStr ELSE Strftime(Val(data_date))
        ticker == Lower(product.ticker)
    IN  IF product.security_type \in { "CFD", "Equity", "Forex", "Index" }
        THEN IF is_hour_or_daily(product)
             THEN Returned(ticker \o DotZip)
             ELSE Returned(formatted_date \o Underscore \o tick_type \o DotZip)
        ELSE IF product.security_type \in { "Crypto", "Future" }
        THEN IF is_hour_or_daily(product)
             THEN Returned(ticker \o Underscore \o tick_type \o DotZip)
             ELSE Returned(formatted_date \o Underscore \o tick_type \o DotZip)
        ELSE IF product.security_type \in { "EquityOption", "IndexOption", "FutureOption" }
        THEN IF IsNone(product.option_style)
             THEN Raised("AttributeError")   \* None has no name
             ELSE IF is_hour_or_daily(product)
             THEN Returned(ticker \o Underscore \o tick_type \o Underscore
                           \o Lower(OptionStyleName(Val(product.option_style))) \o DotZip)
             ELSE Returned(formatted_date \o Underscore \o tick_type \o Underscore
                           \o Lower(OptionStyleName(Val(product.option_style))) \o DotZip)
        ELSE Raised("ValueError")

\* SecurityDataProduct.get_relative_path: the directory is evaluated first
get_relative_path(product, data_date, expiry_date) ==
    LET directory == get_relative_zip_file_directory(product, expiry_date)
        name == get_zip_file_name(product, data_date)
    IN  IF directory.raised # "" THEN directory
        ELSE IF name.raised # "" THEN name
        ELSE Returned(PathDiv(directory.value, name.value))

-----------------------------------------------------------------------------
(* Specification SpecPath: get_relative_path applied to bounded inputs *)

\* 2020-06-15, 2020-06-20 (the dates of the tests) and 2020-07-01
PathDates == { 0, 5, 16 }

PathMarkets == { << "U","S","A" >>, << "U","s","a" >>, << "C","M","E" >> }

PathTickers == { << "S","P","Y" >>, << "s","p","y" >>, << "E","s" >> }

Optional(S) == { None } \cup { Some(x) : x \in S }

PathProducts ==
    [ security_type : SecurityTypes,
      data_type : { "Trade", "Quote", "OpenInterest" },
      market : PathMarkets,
      resolution : Resolutions,
      ticker : PathTickers,
      start_date : { None },
      end_date : { None },
      option_style : Optional(OptionStyles),
      expiry_dates_by_data_date : { None } ]

\* the state of a DataDownloader on which no batch runs
IdleDownloader ==
    /\ products = << >>
    /\ overwrite_flag = FALSE
    /\ force_overwrite = None
    /\ fs = {}
    /\ pidx = 0
    /\ files = << >>
    /\ fidx = 0
    /\ prompts = 0
    /\ links = << >>
    /\ log = << >>

downloaderVars == <<products, overwrite_flag, force_overwrite, fs, pidx, files,
                    fidx, prompts, links, log>>

InitPath ==
    /\ IdleDownloader
    /\ pc = "call"
    /\ arg \in [ product : PathProducts,
                 data_date : Optional(PathDates),
                 expiry_date : Optional(PathDates) ]
    /\ ret = Returned(<< >>)

GetRelativePath ==
    /\ pc = "call"
    /\ ret' = get_relative_path(arg.product, arg.data_date, arg.expiry_date)
    /\ pc' = "return"
    /\ UNCHANGED <<arg, downloaderVars>>

NextPath == GetRelativePath

SpecPath == InitPath /\ [][NextPath]_vars

-----------------------------------------------------------------------------
(* Date enumeration: DataDownloader._get_dates_with_data *)

\* the weekday attributes of MarketHoursDatabaseEntry, in the order of the loop
WeekdayNames == << "monday", "tuesday", "wednesday", "thursday", "friday",
                   "saturday", "sunday" >>

Range(f) == { f[i] : i \in DOMAIN f }

\* the indices, counted from index, of the weekdays of names that have a segment
RECURSIVE SelectIndices(_, _, _)
SelectIndices(entry, names, index) ==
    IF names = << >> THEN << >>
    ELSE (IF Len(entry[Head(names)]) > 0 THEN << index >> ELSE << >>)
         \o SelectIndices(entry, Tail(names), index + 1)

\* weekdays_with_data: weekday(index) of every day with at least one segment
weekdays_with_data(entry) == SelectIndices(entry, WeekdayNames, 0)

\* the days first..last, ascending, that pass the byweekday filter
RECURSIVE DailyOccurrences(_, _, _)
DailyOccurrences(first, last, byweekday) ==
    IF first > last THEN << >>
    ELSE (IF byweekday = {} \/ Weekday(first) \in byweekday
          THEN << first >> ELSE << >>)
         \o DailyOccurrences(first + 1, last, byweekday)

\* dateutil rrule(DAILY, dtstart, until, byweekday): every day from dtstart to
\* until, both included, on one of the weekdays of byweekday.  rrule stores an
\* empty byweekday as None, "no weekday filter": every day then occurs.
rrule_DAILY(dtstart, until, byweekday) ==
    DailyOccurrences(dtstart, until, Range(byweekday))

\* dateutil rruleset.between(after, before, inc=True) of a set holding one rrule
\* and the exdates: the occurrences in [after, before] that are no exdate
rruleset_between(occurrences, exdates, after, before) ==
    SelectSeq(occurrences,
              LAMBDA d : d \notin exdates /\ after <= d /\ d <= before)

\* the day datetime.now() falls on, at a time of day after midnight: dtstart of
\* an rrule built with dtstart=None
Now == 4

\* DataDownloader._get_dates_with_data, entry being what get_entry returned.
\* The program builds products with both dates set or both None
\* (download.py:171-199).  With end_date None, between() compares a datetime
\* with None.  With start_date None alone the rule starts now, its occurrences
\* keep the time of day of now, and between() compares the first of them with
\* None: TypeError when there is one before the midnight of end_date, no date
\* otherwise.
get_dates_with_data(entry, product) ==
    IF IsNone(product.end_date)
    THEN Raised("TypeError")
    ELSE IF IsNone(product.start_date)
    THEN IF rrule_DAILY(Now, Val(product.end_date) - 1, weekdays_with_data(entry))
               = << >>
         THEN Returned(<< >>)
         ELSE Raised("TypeError")
    ELSE LET start_date == Val(product.start_date)
             end_date == Val(product.end_date)
             rule == rrule_DAILY(start_date, end_date, weekdays_with_data(entry))
         IN  Returned(rruleset_between(rule, entry.holidays, start_date, end_date))

-----------------------------------------------------------------------------
(* Specification SpecDates: _get_dates_with_data applied to bounded inputs *)

\* last day number of the date window; 0..6 is Monday 2020-06-15 to Sunday
MaxDay == 6

\* largest number of holidays of a calendar entry
MaxHolidays == 1

Days == 0..MaxDay

\* a MarketHoursSegment
Segment == [start |-> "09:30:00", end |-> "16:00:00", state |-> "market"]

Sessions == { << >>, << Segment >> }

Entries ==
    [ monday : Sessions, tuesday : Sessions, wednesday : Sessions,
      thursday : Sessions, friday : Sessions, saturday : Sessions,
      sunday : Sessions,
      holidays : { h \in SUBSET Days : Cardinality(h) <= MaxHolidays } ]

\* a minute-resolution product with the given date range
DatedProduct(start_date, end_date) ==
    [ security_type |-> "Equity", data_type |-> "Trade",
      market |-> << "U","S","A" >>, resolution |-> "Minute",
      ticker |-> << "S","P","Y" >>,
      start_date |-> start_date, end_date |-> end_date,
      option_style |-> None, expiry_dates_by_data_date |-> None ]

InitDates ==
    /\ IdleDownloader
    /\ pc = "call"
    /\ arg \in [ entry : Entries,
                 product : { DatedProduct(Some(a), Some(b)) : a \in Days, b \in Days } ]
    /\ ret = Returned(<< >>)

GetDatesWithData ==
    /\ pc = "call"
    /\ ret' = get_dates_with_data(arg.entry, arg.product)
    /\ pc' = "return"
    /\ UNCHANGED <<arg, downloaderVars>>

NextDates == GetDatesWithData

SpecDates == InitDates /\ [][NextDates]_vars

\* the weekday attribute of entry for day number d
SessionsOn(entry, d) == entry[WeekdayNames[Weekday(d) + 1]]

\* the tradable days of [first, last]: a session on that weekday, no holiday
TradableDays(entry, first, last) ==
    { d \in first..last : SessionsOn(entry, d) # << >> /\ d \notin entry.holidays }

IsAscending(seq) == \A i \in 1..Len(seq) - 1 : seq[i] < seq[i + 1]

\* C5 (as claimed): for every calendar entry and range start <= end, the date
\* enumeration returns, without an error, exactly the days of [start, end] whose
\* weekday has a trading session and that are no holiday, in strictly ascending
\* order; a single-day range gives at most one date.
C5_TradableDates ==
    (pc = "return" /\ Val(arg.product.start_date) <= Val(arg.product.end_date)) =>
        /\ ret.raised = ""
        /\ IsAscending(ret.value)
        /\ Range(ret.value) = TradableDays(arg.entry, Val(arg.product.start_date),
                                           Val(arg.product.end_date))
        /\ (arg.product.start_date = arg.product.end_date => Len(ret.value) <= 1)

\* the entries with a trading session on at least one weekday
HasSession(entry) == \E i \in 1..7 : entry[WeekdayNames[i]] # << >>

\* C5 restricted to entries that trade on some weekday
C5_TradableDatesWithSession ==
    (pc = "return" /\ HasSession(arg.entry)) => C5_TradableDates

-----------------------------------------------------------------------------
(* Planning: DataDownloader.download_security_data, up to the list of files *)

\* the key of a security in the market hours database
Identity(security_type, market, ticker) == << security_type, Str(market), Str(ticker) >>

\* MarketHoursDatabase.get_entry: the entry of the security, an error when the
\* database has none
get_entry(db, security_type, market, ticker) ==
    IF Identity(security_type, market, ticker) \in DOMAIN db
    THEN Returned(db[Identity(security_type, market, ticker)])
    ELSE Raised("NotFoundError")

\* dict.get(key, []) on expiry_dates_by_data_date; the key None is in no mapping
DictGet(mapping, key) ==
    IF ~IsNone(key) /\ Val(key) \in DOMAIN mapping THEN mapping[Val(key)] ELSE << >>

\* the first of two results that raised, else both values concatenated
Concat(first, rest) ==
    IF first.raised # "" THEN first
    ELSE IF rest.raised # "" THEN rest
    ELSE Returned(first.value \o rest.value)

\* a result holding one path, or the error of get_relative_path
OnePath(result) ==
    IF result.raised # "" THEN result ELSE Returned(<< result.value >>)

\* the inner loop over the expiry dates of one data date, keeping the first expiry only
RECURSIVE ExpiryPaths_FirstOnly(_, _, _)
ExpiryPaths_FirstOnly(product, date, expiries) ==
    IF expiries = << >> THEN Returned(<< >>)
    ELSE OnePath(get_relative_path(product, date, Some(Head(expiries))))

\* download_security_data, lines 85-86: one path per expiry date, in order
RECURSIVE ExpiryPaths(_, _, _)
ExpiryPaths(product, date, expiries) ==
    IF expiries = << >> THEN Returned(<< >>)
    ELSE Concat(OnePath(get_relative_path(product, date, Some(Head(expiries)))),
                ExpiryPaths(product, date, Tail(expiries)))

\* download_security_data, lines 83-88: the loop over the dates
RECURSIVE DatePaths(_, _)
DatePaths(product, dates) ==
    IF dates = << >> THEN Returned(<< >>)
    ELSE LET date == Head(dates)
             here ==
                 IF product.security_type = "FutureOption"
                 THEN IF IsNone(product.expiry_dates_by_data_date)
                      THEN Raised("AttributeError")   \* None has no get
                      ELSE ExpiryPaths(product, date,
                               DictGet(Val(product.expiry_dates_by_data_date), date))
                 ELSE OnePath(get_relative_path(product, date, None))
         IN  IF here.raised # "" THEN here
             ELSE Concat(here, DatePaths(product, Tail(dates)))

\* download_security_data, lines 77-80: [None] for Hour and Daily, else the
\* dates with data of the security's calendar entry
dates_of(product, db) ==
    IF product.resolution = "Hour" \/ product.resolution = "Daily"
    THEN Returned(<< None >>)
    ELSE LET entry == get_entry(db, product.security_type, product.market,
                                product.ticker)
         IN  IF entry.raised # "" THEN entry
             ELSE LET dates == get_dates_with_data(entry.value, product)
                  IN  IF dates.raised # "" THEN dates
                      ELSE Returned([i \in 1..Len(dates.value) |-> Some(dates.value[i])])

\* download_security_data, lines 77-88: the files handed to _download_files
security_data_files(product, db) ==
    LET dates == dates_of(product, db)
    IN  IF dates.raised # "" THEN dates ELSE DatePaths(product, dates.value)

-----------------------------------------------------------------------------
(* Specification SpecPlan: the plan of one product, bounded inputs *)

\* the entry with a session on the weekdays of the set wds and the given holidays
EntryWith(wds, holidays) ==
    [ name \in Range(WeekdayNames) \cup { "holidays" } |->
        IF name = "holidays" THEN holidays
        ELSE IF \E i \in wds : WeekdayNames[i + 1] = name THEN << Segment >>
        ELSE << >> ]

PlanEntries ==
    { EntryWith(0..4, {}), EntryWith(0..4, {1}), EntryWith(0..6, {}),
      EntryWith({1, 3}, {}), EntryWith({}, {}) }

\* expiry dates listed under one data date
ExpiryLists == { << >>, << 5 >>, << 5, 16 >>, << 16, 5 >> }

\* expiry_dates_by_data_date: a dict with at most two data dates
ExpiryMappings ==
    UNION { [ keys -> ExpiryLists ] :
              keys \in { k \in SUBSET Days : Cardinality(k) <= 2 } }

DateRanges ==
    { << None, None >>, << None, Some(2) >>, << None, Some(MaxDay) >>,
      << Some(0), None >> } \cup
    { << Some(a), Some(b) >> : <<a, b>> \in { ab \in Days \X Days : ab[1] <= ab[2] } }

PlanProduct(security_type, resolution, range, option_style, mapping) ==
    [ security_type |-> security_type, data_type |-> "Trade",
      market |-> IF security_type = "FutureOption"
                 THEN << "C","M","E" >> ELSE << "U","S","A" >>,
      resolution |-> resolution,
      ticker |-> IF security_type = "FutureOption"
                 THEN << "E","s" >> ELSE << "S","P","Y" >>,
      start_date |-> range[1], end_date |-> range[2],
      option_style |-> option_style,
      expiry_dates_by_data_date |-> mapping ]

PlanProducts ==
    { PlanProduct("FutureOption", res, range, Some("American"), mapping) :
        res \in { "Minute", "Daily" }, range \in DateRanges,
        mapping \in Optional(ExpiryMappings) }
    \cup
    { PlanProduct(st, res, range, None, None) :
        st \in { "Equity", "Future" }, res \in { "Tick", "Minute", "Hour" },
        range \in DateRanges }
    \cup
    { PlanProduct(st, res, << None, None >>,
                  IF st \in { "EquityOption", "IndexOption" }
                  THEN Some("European") ELSE None,
                  None) :
        st \in SecurityTypes \ { "FutureOption" }, res \in { "Hour", "Daily" } }

\* the databases with at most the entry of the product
DatabasesFor(product) ==
    { << >> } \cup
    { [ key \in { Identity(product.security_type, product.market, product.ticker) }
          |-> entry ] : entry \in PlanEntries }

InitPlan ==
    /\ IdleDownloader
    /\ pc = "call"
    /\ \E product \in PlanProducts :
           \E db \in DatabasesFor(product) :
               arg = [ product |-> product, db |-> db ]
    /\ ret = Returned(<< >>)

DownloadSecurityDataPlan ==
    /\ pc = "call"
    /\ ret' = security_data_files(arg.product, arg.db)
    /\ pc' = "return"
    /\ UNCHANGED <<arg, downloaderVars>>

NextPlan == DownloadSecurityDataPlan

SpecPlan == InitPlan /\ [][NextPlan]_vars

-----------------------------------------------------------------------------
(* What the path convention prescribes, written as literals *)

TypeSegment(security_type) ==
    CASE security_type = "CFD" -> "cfd"
      [] security_type = "Crypto" -> "crypto"
      [] security_type = "Equity" -> "equity"
      [] security_type = "EquityOption" -> "option"
      [] security_type = "Forex" -> "forex"
      [] security_type = "Future" -> "future"
      [] security_type = "FutureOption" -> "futureoption"
      [] security_type = "Index" -> "index"
      [] security_type = "IndexOption" -> "indexoption"

ResolutionSegment(resolution) ==
    CASE resolution = "Tick" -> "tick"
      [] resolution = "Second" -> "second"
      [] resolution = "Minute" -> "minute"
      [] resolution = "Hour" -> "hour"
      [] resolution = "Daily" -> "daily"

\* the lowercase spelling of the markets and tickers of PathMarkets and PathTickers
LowerLiteral(s) ==
    CASE Str(s) \in { "USA", "Usa" } -> "usa"
      [] Str(s) = "CME" -> "cme"
      [] Str(s) \in { "SPY", "spy" } -> "spy"
      [] Str(s) = "Es" -> "es"

\* YYYYMMDD of the days of PathDates
DateLiteral(n) ==
    CASE n = 0 -> "20200615"
      [] n = 5 -> "20200620"
      [] n = 16 -> "20200701"

DataTypeLiteral(data_type) ==
    CASE data_type = "Trade" -> "trade"
      [] data_type = "Quote" -> "quote"
      [] data_type = "OpenInterest" -> "openinterest"

OptionStyleLiteral(option_style) ==
    CASE option_style = "American" -> "american"
      [] option_style = "European" -> "european"

\* the directory of a path (every segment but the last) and its file name
Parent(path) == SubSeq(path, 1, Len(path) - 1)

FileName(path) == path[Len(path)]

PathReturned == pc = "return" /\ ret.raised = ""

\* the products that differ from product only in the letter case of market or ticker
CaseVariants(product) ==
    { [product EXCEPT !.market = m, !.ticker = t] :
        <<m, t>> \in { mt \in PathMarkets \X PathTickers :
                         /\ Lower(mt[1]) = Lower(product.market)
                         /\ Lower(mt[2]) = Lower(product.ticker) } }

-----------------------------------------------------------------------------
(* Claims on path resolution, checked under SpecPath *)

\* C7: the directory of a returned path is internalName/market/resolution in
\* lowercase, alone for Hour and Daily, followed by /ticker (lowercase) for the
\* other resolutions and by /ticker/YYYYMMDD(expiry) for FutureOption; the path
\* is the directory, a forward slash and the file name, and it is the same for
\* products that differ only in the letter case of market or ticker.
C7_Directory ==
    PathReturned =>
        LET product == arg.product
            base == TypeSegment(product.security_type) \o "/"
                    \o LowerLiteral(product.market) \o "/"
                    \o ResolutionSegment(product.resolution)
            directory == Str(AsPosix(Parent(ret.value)))
        IN  /\ directory =
                  IF product.resolution \in { "Hour", "Daily" } THEN base
                  ELSE IF product.security_type = "FutureOption"
                  THEN base \o "/" \o LowerLiteral(product.ticker) \o "/"
                       \o DateLiteral(Val(arg.expiry_date))
                  ELSE base \o "/" \o LowerLiteral(product.ticker)
            /\ Str(AsPosix(ret.value)) = directory \o "/" \o Str(FileName(ret.value))
            /\ \A i \in 1..Len(ret.value) :
                   \A j \in 1..Len(ret.value[i]) : ret.value[i][j] \notin { "/", "\\" }
            /\ \A variant \in CaseVariants(product) :
                   get_relative_path(variant, arg.data_date, arg.expiry_date) = ret

\* C7 witness: the FutureOption case of the tests, market and ticker in mixed case
C7_Witness ==
    /\ PathReturned
    /\ arg.product.security_type = "FutureOption"
    /\ arg.product.resolution = "Minute"
    /\ Str(arg.product.market) = "CME"
    /\ Str(arg.product.ticker) = "Es"
    /\ Str(AsPosix(ret.value)) =
           "futureoption/cme/minute/es/20200620/20200615_trade_american.zip"

\* C8: the file name of a returned path is ticker.zip (CFD, Equity, Forex, Index),
\* ticker_dataType.zip (Crypto, Future) or ticker_dataType_optionStyle.zip
\* (EquityOption, IndexOption, FutureOption) at Hour and Daily, and
\* YYYYMMDD(dataDate)_dataType[_optionStyle].zip otherwise, in lowercase; at Hour
\* and Daily the result is the same whatever data date is passed.
C8_FileName ==
    (PathReturned /\ (arg.product.resolution \in { "Hour", "Daily" }
                      \/ ~IsNone(arg.data_date))) =>
        LET product == arg.product
            hourly == product.resolution \in { "Hour", "Daily" }
            ticker == LowerLiteral(product.ticker)
            type == DataTypeLiteral(product.data_type)
            prefix == IF hourly THEN ticker ELSE DateLiteral(Val(arg.data_date))
        IN  /\ Str(FileName(ret.value)) =
                  IF product.security_type \in { "CFD", "Equity", "Forex", "Index" }
                  THEN (IF hourly THEN ticker \o ".zip"
                        ELSE prefix \o "_" \o type \o ".zip")
                  ELSE IF product.security_type \in { "Crypto", "Future" }
                  THEN prefix \o "_" \o type \o ".zip"
                  ELSE prefix \o "_" \o type \o "_"
                       \o OptionStyleLiteral(Val(product.option_style)) \o ".zip"
            /\ hourly =>
                   \A d \in Optional(PathDates) :
                       get_relative_path(product, d, arg.expiry_date) = ret

\* C8 witness: an hourly option file and its name without a date
C8_Witness ==
    /\ PathReturned
    /\ arg.product.security_type = "IndexOption"
    /\ arg.product.resolution = "Hour"
    /\ ~IsNone(arg.data_date)
    /\ Str(AsPosix(ret.value)) = "indexoption/usa/hour/spy_trade_european.zip"

\* C9 (as claimed): get_relative_path on a FutureOption product without an expiry
\* date fails and returns no path, for every resolution and data date.
C9_FutureOptionNeedsExpiry ==
    (pc = "return" /\ arg.product.security_type = "FutureOption"
                   /\ IsNone(arg.expiry_date)) => ret.raised # ""

\* C10 (as claimed): get_relative_path with an expiry date on a product that is
\* not a FutureOption fails instead of returning a path.
C10_ExpiryRejected ==
    (pc = "return" /\ arg.product.security_type # "FutureOption"
                   /\ ~IsNone(arg.expiry_date)) => ret.raised # ""

OptionBearing == { "EquityOption", "IndexOption", "FutureOption" }

\* C10 (amended): get_relative_path with an expiry date on a product that is not
\* a FutureOption ignores the expiry date: it returns what it returns without
\* one, which is a path whenever the option style an option type needs is set.
C10_ExpiryIgnored ==
    (pc = "return" /\ arg.product.security_type # "FutureOption"
                   /\ ~IsNone(arg.expiry_date)) =>
        /\ ret = get_relative_path(arg.product, arg.data_date, None)
        /\ (arg.product.security_type \in OptionBearing =>
                ~IsNone(arg.product.option_style)) => ret.raised = ""

\* C10 witness: an Equity path asked for with an expiry date
C10_Witness ==
    /\ PathReturned
    /\ arg.product.security_type = "Equity"
    /\ arg.product.resolution = "Minute"
    /\ arg.expiry_date = Some(5)
    /\ Str(AsPosix(ret.value)) = "equity/usa/minute/spy/20200615_trade.zip"

\* C15 (as claimed): get_relative_path with data_date = None on a product with
\* Tick, Second or Minute resolution fails: a path comes back without a data
\* date only for Hour and Daily.
C15_DataDateRequired ==
    (pc = "return" /\ IsNone(arg.data_date) /\ ret.raised = "")
        => arg.product.resolution \in { "Hour", "Daily" }

-----------------------------------------------------------------------------
(* Claims on planning, checked under SpecPlan *)

\* the plan of a FutureOption product was built from enumerated trading dates
FutureOptionPlanned ==
    /\ pc = "return"
    /\ ret.raised = ""
    /\ arg.product.security_type = "FutureOption"
    /\ arg.product.resolution \notin { "Hour", "Daily" }
    /\ ~IsNone(arg.product.expiry_dates_by_data_date)

\* the trading dates enumerated for the product of arg
EnumeratedDates ==
    get_dates_with_data(
        arg.db[Identity(arg.product.security_type, arg.product.market,
                        arg.product.ticker)],
        arg.product).value

\* the expiry dates listed under data date d, none when d has no entry
ExpiriesListed(d) ==
    LET mapping == Val(arg.product.expiry_dates_by_data_date)
    IN  IF d \in DOMAIN mapping THEN mapping[d] ELSE << >>

\* the number of expiry dates listed under the first n dates of dates
RECURSIVE ListedUpTo(_, _)
ListedUpTo(dates, n) ==
    IF n = 0 THEN 0
    ELSE ListedUpTo(dates, n - 1) + Len(ExpiriesListed(dates[n]))

\* C6: the plan of a FutureOption product holds, for each enumerated trading
\* date D in order, one path per expiry date listed under D, in the order of the
\* list (data date D in the file name, the expiry date as last directory), and
\* nothing else: no path for a date without an entry in the mapping.
C6_FutureOptionPlan ==
    FutureOptionPlanned =>
        LET dates == EnumeratedDates
        IN  /\ Len(ret.value) = ListedUpTo(dates, Len(dates))
            /\ \A i \in 1..Len(dates) :
                   \A k \in 1..Len(ExpiriesListed(dates[i])) :
                       LET path == ret.value[ListedUpTo(dates, i - 1) + k]
                       IN  /\ Str(FileName(path)) =
                                  Str(Strftime(dates[i])) \o "_trade_american.zip"
                           /\ Str(FileName(Parent(path))) =
                                  Str(Strftime(ExpiriesListed(dates[i])[k]))
                           /\ Str(AsPosix(Parent(Parent(path)))) =
                                  "futureoption/cme/minute/es"

\* C6 witness: Monday 2020-06-15 lists two expiry dates, Tuesday has no entry
C6_Witness ==
    /\ FutureOptionPlanned
    /\ EnumeratedDates = << 0, 1 >>
    /\ DOMAIN Val(arg.product.expiry_dates_by_data_date) = { 0 }
    /\ Len(ret.value) = 2
    /\ Str(AsPosix(ret.value[1])) =
           "futureoption/cme/minute/es/20200620/20200615_trade_american.zip"
    /\ Str(AsPosix(ret.value[2])) =
           "futureoption/cme/minute/es/20200701/20200615_trade_american.zip"

\* the one path of an Hour or Daily product: the directory
\* internalName/market/resolution and a file name that starts with the ticker
\* and holds no date; returned whatever the database holds
OnePathNoDate ==
    /\ ret.raised = ""
    /\ Len(ret.value) = 1
    /\ LET product == arg.product
           path == ret.value[1]
           ticker == LowerLiteral(product.ticker)
       IN  /\ Str(AsPosix(Parent(path))) =
                  TypeSegment(product.security_type) \o "/"
                  \o LowerLiteral(product.market) \o "/"
                  \o ResolutionSegment(product.resolution)
           /\ Str(FileName(path)) =
                  IF product.security_type \in { "CFD", "Equity", "Forex", "Index" }
                  THEN ticker \o ".zip"
                  ELSE IF product.security_type \in { "Crypto", "Future" }
                  THEN ticker \o "_trade.zip"
                  ELSE ticker \o "_trade_"
                       \o OptionStyleLiteral(Val(product.option_style)) \o ".zip"

\* C13 (as claimed): the plan of every product with Hour or Daily resolution,
\* whatever its security type, is one path resolved without a data date, and
\* it is built without the calendar: also when the database has no entry of
\* the security.
C13_OnePathNoDate ==
    (pc = "return" /\ arg.product.resolution \in { "Hour", "Daily" })
        => OnePathNoDate

\* The part of C13 that holds: every security type but FutureOption
C13_ExceptFutureOption ==
    ( /\ pc = "return"
      /\ arg.product.resolution \in { "Hour", "Daily" }
      /\ arg.product.security_type # "FutureOption" )
        => OnePathNoDate

\* a returned plan of a product with Tick, Second or Minute resolution that is
\* no FutureOption
DatedPlanReturned ==
    /\ pc = "return"
    /\ ret.raised = ""
    /\ arg.product.resolution \in { "Tick", "Second", "Minute" }
    /\ arg.product.security_type # "FutureOption"
    /\ ~IsNone(arg.product.start_date)
    /\ ~IsNone(arg.product.end_date)

\* one path per enumerated date, in the order of the enumeration: path i is
\* the file of date i in the directory of the ticker
OnePathPerDate ==
    LET dates == EnumeratedDates
        product == arg.product
    IN  /\ Len(ret.value) = Len(dates)
        /\ IsAscending(dates)
        /\ \A i \in 1..Len(dates) :
               /\ Str(FileName(ret.value[i])) =
                      Str(Strftime(dates[i])) \o "_trade.zip"
               /\ Str(AsPosix(Parent(ret.value[i]))) =
                      TypeSegment(product.security_type) \o "/usa/"
                      \o ResolutionSegment(product.resolution) \o "/spy"

\* C14 (as claimed): the plan of a Tick, Second or Minute product that is no
\* FutureOption holds one path per enumerated date in the same ascending order,
\* and as many files as the range has tradable dates (days with a session on
\* their weekday that are no holiday).
C14_OnePathPerTradableDate ==
    DatedPlanReturned =>
        /\ OnePathPerDate
        /\ Len(ret.value) =
               Cardinality(TradableDays(
                   arg.db[Identity(arg.product.security_type, arg.product.market,
                                   arg.product.ticker)],
                   Val(arg.product.start_date), Val(arg.product.end_date)))

\* The part of C14 on the plan alone: one path per enumerated date, in order
C14_OnePathPerEnumeratedDate ==
    DatedPlanReturned => OnePathPerDate

\* C21 (as claimed): a product with a null start or end date is planned as
\* Hour and Daily are, whatever its resolution: the plan is returned, it holds
\* one path, and the date enumeration is not called (no calendar entry is
\* needed).  Stated for the security types other than FutureOption, whose
\* plans without a date are the matter of C13.
C21_NullDatesPlannedAsDaily ==
    ( /\ pc = "return"
      /\ IsNone(arg.product.start_date) \/ IsNone(arg.product.end_date)
      /\ arg.product.security_type # "FutureOption" )
        => /\ ret.raised = ""
           /\ Len(ret.value) = 1

-----------------------------------------------------------------------------
(* Batch download: DataDownloader.download_products and what it calls *)

\* the key of a file under the local data directory and at the remote store
PathKey(path) == Str(AsPosix(path))

\* _should_overwrite that stores no answer: the flag stays unset
should_overwrite_AskEachTime(flag, force, answer) ==
    IF flag \/ force = Some(TRUE)
    THEN [value |-> TRUE, force_overwrite |-> force, asked |-> FALSE]
    ELSE [value |-> answer, force_overwrite |-> force, asked |-> TRUE]

\* _should_overwrite that does not read overwrite_flag
should_overwrite_IgnoreFlag(flag, force, answer) ==
    IF force = Some(TRUE)
    THEN [value |-> TRUE, force_overwrite |-> force, asked |-> FALSE]
    ELSE IF IsNone(force)
    THEN [value |-> answer, force_overwrite |-> Some(answer), asked |-> TRUE]
    ELSE [value |-> Val(force), force_overwrite |-> force, asked |-> FALSE]

\* DataDownloader._should_overwrite; answer is what click.confirm returns if asked
should_overwrite(flag, force, answer) ==
    IF flag \/ force = Some(TRUE)
    THEN [value |-> TRUE, force_overwrite |-> force, asked |-> FALSE]
    ELSE IF IsNone(force)
    THEN [value |-> answer, force_overwrite |-> Some(answer), asked |-> TRUE]
    ELSE [value |-> Val(force), force_overwrite |-> force, asked |-> FALSE]

\* line 142 of data_downloader.py: the unconditional return under the TODO
TodoReturn == TRUE

\* files the remote store does not have
RemoteMissing == { "equity/usa/daily/spy.zip" }

\* what requests.get gives for a file: an HTTP error status, the JSON
\* "Not found" message, or the content of the file
response_for(file, transport_ok) ==
    IF ~transport_ok THEN "error"
    ELSE IF file \in RemoteMissing THEN "not_found"
    ELSE "content"

\* _download_file without the check of lines 138-139: a present file that may
\* not be overwritten goes on to the statements after it
download_file_NoSkip(relative_file, flag, force, present, answer, transport_ok) ==
    LET file == PathKey(relative_file)
        exists == file \in present
        decision == IF exists THEN should_overwrite(flag, force, answer)
                    ELSE [value |-> TRUE, force_overwrite |-> force, asked |-> FALSE]
    IN  [ file |-> file, existed |-> exists, asked |-> decision.asked,
          permitted |-> decision.value,
          force_overwrite |-> decision.force_overwrite,
          present |-> present, link |-> FALSE, raised |-> "",
          outcome |-> "NotFetched" ]

\* DataDownloader._download_file on the local files present.  outcome is the
\* place the call ends: "Skipped" (return of line 139), "NotFetched" (return of
\* line 142), "Fetched" (the write of lines 158-159); the statements after
\* line 142 raise on an HTTP error (raise_for_status) and on the "Not found"
\* message (file is no name of that scope).
download_file(relative_file, flag, force, present, answer, transport_ok) ==
    LET file == PathKey(relative_file)
        exists == file \in present
        decision == IF exists THEN should_overwrite(flag, force, answer)
                    ELSE [value |-> TRUE, force_overwrite |-> force, asked |-> FALSE]
        base == [ file |-> file, existed |-> exists, asked |-> decision.asked,
                  permitted |-> decision.value,
                  force_overwrite |-> decision.force_overwrite,
                  present |-> present, link |-> FALSE, raised |-> "" ]
    IN  IF exists /\ ~decision.value
        THEN base @@ [outcome |-> "Skipped"]
        ELSE IF TodoReturn
        THEN base @@ [outcome |-> "NotFetched"]
        ELSE LET response == response_for(file, transport_ok)
             IN  IF response = "error"
                 THEN [base EXCEPT !.link = TRUE, !.raised = "HTTPError"]
                      @@ [outcome |-> "Raised"]
                 ELSE IF response = "not_found"
                 THEN [base EXCEPT !.link = TRUE, !.raised = "NameError"]
                      @@ [outcome |-> "Raised"]
                 ELSE [base EXCEPT !.link = TRUE, !.present = present \cup { file }]
                      @@ [outcome |-> "Fetched"]

\* isinstance(product, SecurityDataProduct)
IsSecurityDataProduct(product) == "security_type" \in DOMAIN product

-----------------------------------------------------------------------------
(* Specification Spec: one run of download_products on a new DataDownloader *)

\* largest number of products of a batch
MaxProducts == 2

\* the market hours database of the runs
BatchDb ==
    [ key \in { << "Equity", "USA", "SPY" >>, << "FutureOption", "CME", "Es" >> } |->
        IF key[1] = "Equity" THEN EntryWith(0..4, {1}) ELSE EntryWith(0..4, {}) ]

\* Product(data_type=...), a subscription
Subscription(data_type) == [ data_type |-> data_type ]

\* the products a batch is made of: minute equity data of Monday to Wednesday
\* (Tuesday a holiday), daily equity data, future option data of a Monday with
\* two expiries, forex data of a pair the database does not know, and the two
\* subscriptions
BatchCatalogue ==
    { PlanProduct("Equity", "Minute", << Some(0), Some(2) >>, None, None),
      PlanProduct("Equity", "Daily", << None, None >>, None, None),
      PlanProduct("FutureOption", "Minute", << Some(0), Some(1) >>,
                  Some("American"), Some([ d \in { 0 } |-> << 5, 16 >> ])),
      PlanProduct("Forex", "Minute", << Some(0), Some(1) >>, None, None),
      Subscription("MapFactor"),
      Subscription("Coarse") }

Batches == UNION { [ 1..n -> BatchCatalogue ] : n \in 1..MaxProducts }

\* the keys of the files the plans of the products of a batch hold
PlannedFiles(batch) ==
    UNION { LET plan == security_data_files(batch[i], BatchDb)
            IN  IF plan.raised # "" THEN {}
                ELSE { PathKey(plan.value[j]) : j \in 1..Len(plan.value) }
            : i \in { k \in 1..Len(batch) : IsSecurityDataProduct(batch[k]) } }

Init ==
    /\ products \in Batches
    /\ overwrite_flag \in BOOLEAN
    /\ force_overwrite = None
    /\ fs \in SUBSET PlannedFiles(products)
    /\ pidx = 0
    /\ files = << >>
    /\ fidx = 0
    /\ prompts = 0
    /\ links = << >>
    /\ log = << >>
    /\ pc = "products"
    /\ arg = [ db |-> BatchDb ]
    /\ ret = Returned(<< >>)

\* download_products, a SecurityDataProduct: download_security_data up to the
\* call of _download_files; an exception of the planning leaves download_products
DownloadSecurityData ==
    /\ pc = "products"
    /\ pidx < Len(products)
    /\ IsSecurityDataProduct(products[pidx + 1])
    /\ LET plan == security_data_files(products[pidx + 1], arg.db)
       IN  IF plan.raised # ""
           THEN /\ pc' = "raised"
                /\ ret' = plan
                /\ UNCHANGED <<files, fidx>>
           ELSE /\ files' = plan.value
                /\ fidx' = 0
                /\ pc' = IF plan.value = << >> THEN "products" ELSE "files"
                /\ ret' = ret
    /\ pidx' = pidx + 1
    /\ UNCHANGED <<products, overwrite_flag, force_overwrite, fs, prompts, links,
                   log, arg>>

\* download_products, the MapFactor subscription: download_map_factor logs only
DownloadMapFactor ==
    /\ pc = "products"
    /\ pidx < Len(products)
    /\ ~IsSecurityDataProduct(products[pidx + 1])
    /\ products[pidx + 1].data_type = "MapFactor"
    /\ pidx' = pidx + 1
    /\ UNCHANGED <<products, overwrite_flag, force_overwrite, fs, files, fidx,
                   prompts, links, log, pc, arg, ret>>

\* download_products, the Coarse subscription: download_coarse logs only
DownloadCoarse ==
    /\ pc = "products"
    /\ pidx < Len(products)
    /\ ~IsSecurityDataProduct(products[pidx + 1])
    /\ products[pidx + 1].data_type = "Coarse"
    /\ pidx' = pidx + 1
    /\ UNCHANGED <<products, overwrite_flag, force_overwrite, fs, files, fidx,
                   prompts, links, log, pc, arg, ret>>

\* _download_files that walks the plan from its last file to its first
DownloadFile_LastFirst ==
    /\ pc = "files"
    /\ fidx < Len(files)
    /\ \E answer \in BOOLEAN, transport_ok \in BOOLEAN :
         LET done == download_file(files[Len(files) - fidx], overwrite_flag,
                                   force_overwrite, fs, answer, transport_ok)
         IN  /\ force_overwrite' = done.force_overwrite
             /\ prompts' = IF done.asked THEN prompts + 1 ELSE prompts
             /\ fs' = done.present
             /\ links' = IF done.link THEN Append(links, done.file) ELSE links
             /\ log' = Append(log, [ file |-> done.file, existed |-> done.existed,
                                     asked |-> done.asked,
                                     permitted |-> done.permitted,
                                     outcome |-> done.outcome ])
             /\ IF done.raised # ""
                THEN pc' = "raised" /\ ret' = Raised(done.raised)
                ELSE /\ pc' = IF fidx + 1 = Len(files) THEN "products" ELSE "files"
                     /\ ret' = ret
    /\ fidx' = fidx + 1
    /\ UNCHANGED <<products, overwrite_flag, pidx, files, arg>>

\* _download_files, one iteration: _download_file on the next file of the plan
DownloadFile ==
    /\ pc = "files"
    /\ fidx < Len(files)
    /\ \E answer \in BOOLEAN, transport_ok \in BOOLEAN :
         LET done == download_file(files[fidx + 1], overwrite_flag, force_overwrite,
                                   fs, answer, transport_ok)
         IN  /\ force_overwrite' = done.force_overwrite
             /\ prompts' = IF done.asked THEN prompts + 1 ELSE prompts
             /\ fs' = done.present
             /\ links' = IF done.link THEN Append(links, done.file) ELSE links
             /\ log' = Append(log, [ file |-> done.file, existed |-> done.existed,
                                     asked |-> done.asked,
                                     permitted |-> done.permitted,
                                     outcome |-> done.outcome ])
             /\ IF done.raised # ""
                THEN pc' = "raised" /\ ret' = Raised(done.raised)
                ELSE /\ pc' = IF fidx + 1 = Len(files) THEN "products" ELSE "files"
                     /\ ret' = ret
    /\ fidx' = fidx + 1
    /\ UNCHANGED <<products, overwrite_flag, pidx, files, arg>>

\* download_products returns after the last product
Return ==
    /\ pc = "products"
    /\ pidx = Len(products)
    /\ pc' = "done"
    /\ UNCHANGED <<products, overwrite_flag, force_overwrite, fs, pidx, files,
                   fidx, prompts, links, log, arg, ret>>

Next ==
    \/ DownloadSecurityData
    \/ DownloadMapFactor
    \/ DownloadCoarse
    \/ DownloadFile
    \/ Return

Spec == Init /\ [][Next]_vars

-----------------------------------------------------------------------------
(* Claims on the batch run, checked under Spec *)

\* the calls of _download_file that found the file present
Encounters == { i \in 1..Len(log) : log[i].existed }

\* the keys of the files of the plans built so far, those of the products started
PlannedSoFar == PlannedFiles(SubSeq(products, 1, pidx))

\* C1: in a run without --overwrite, click.confirm is called at most once, and
\* exactly once as soon as a file of a plan was found present, however many
\* present files follow; whenever the run is between two products, has returned
\* or was left by an exception, it has asked exactly once when a file of the
\* plans built so far is present locally and never otherwise.
C1_ConfirmOnce ==
    ~overwrite_flag =>
        /\ prompts <= 1
        /\ prompts = 1 <=> Encounters # {}
        /\ pc # "files" => (prompts = 1 <=> PlannedSoFar \cap fs # {})

\* C1 witness: a returned run of two products that met three present files
\* and asked once
C1_Witness ==
    /\ pc = "done"
    /\ ~overwrite_flag
    /\ Len(products) = 2
    /\ Cardinality(Encounters) >= 3
    /\ prompts = 1

\* C2 (as claimed): the answer of the confirmation stays the decision flag of
\* the run, and every later call that finds its file present asks nothing and
\* follows it: the file is overwritten (fetched and present) after allow,
\* skipped after deny.
C2_DecisionReused ==
    \A i \in 1..Len(log) :
        log[i].asked =>
            /\ force_overwrite = Some(log[i].permitted)
            /\ \A j \in (i + 1)..Len(log) :
                   log[j].existed =>
                       /\ ~log[j].asked
                       /\ log[j].permitted = log[i].permitted
                       /\ log[i].permitted => log[j].outcome = "Fetched"
                       /\ ~log[i].permitted => log[j].outcome = "Skipped"

\* The part of C2 on the flag alone: the answer stays the decision flag, later
\* calls ask nothing, pass the check of line 138 after allow and return at
\* line 139 after deny.
C2_FlagReused ==
    \A i \in 1..Len(log) :
        log[i].asked =>
            /\ force_overwrite = Some(log[i].permitted)
            /\ \A j \in (i + 1)..Len(log) :
                   log[j].existed =>
                       /\ ~log[j].asked
                       /\ log[j].permitted = log[i].permitted
                       /\ log[j].outcome = "Skipped" <=> ~log[i].permitted

\* C3 (as claimed): a call of _download_file whose file is absent, or present
\* with overwriting permitted, ends in Fetched: the link of the file was
\* requested and the file is present afterwards.
C3_Fetched ==
    \A i \in 1..Len(log) :
        (~log[i].existed \/ log[i].permitted) =>
            /\ log[i].outcome = "Fetched"
            /\ log[i].file \in fs
            /\ \E k \in 1..Len(links) : links[k] = log[i].file

\* C4 (as claimed): a file that is not skipped and that the remote store does
\* not have ends in Failed, and the run goes on: no exception leaves
\* download_products.
C4_FailedContinues ==
    \A i \in 1..Len(log) :
        (log[i].outcome # "Skipped" /\ log[i].file \in RemoteMissing) =>
            /\ log[i].outcome = "Failed"
            /\ pc # "raised"

\* C11 (as claimed): in a run with overwrite_flag nothing is asked, every file
\* found present may be overwritten, and once a file was found present the
\* decision flag of the run is allow.
C11_FlagFixedToAllow ==
    overwrite_flag =>
        /\ prompts = 0
        /\ \A i \in Encounters : ~log[i].asked /\ log[i].permitted
        /\ Encounters # {} => force_overwrite = Some(TRUE)

\* C11: in a run with overwrite_flag, click.confirm is never called, every
\* call of _download_file that finds its file present gets True from
\* _should_overwrite and passes the check of line 138 (it is never skipped), and
\* _force_overwrite is never assigned: it stays unset for the whole run.
C11_OverwriteFlag ==
    overwrite_flag =>
        /\ prompts = 0
        /\ \A i \in Encounters :
               ~log[i].asked /\ log[i].permitted /\ log[i].outcome # "Skipped"
        /\ force_overwrite = None

\* C11 witness: a returned run with overwrite_flag that found two files present
C11_Witness ==
    /\ pc = "done"
    /\ overwrite_flag
    /\ Cardinality(Encounters) >= 2

\* C12: a call of _download_file that finds its file present in a run without
\* overwrite_flag whose decision after the call is deny (answered now or
\* earlier) ends in Skipped, and the step requests no link and leaves the local
\* files as they were.
C12_SkippedFrame ==
    [][ ( /\ pc = "files"
          /\ ~overwrite_flag
          /\ PathKey(files[fidx + 1]) \in fs
          /\ force_overwrite' = Some(FALSE) )
        => ( /\ Len(log') = Len(log) + 1
             /\ log'[Len(log')].outcome = "Skipped"
             /\ links' = links
             /\ fs' = fs ) ]_vars

\* C12 witness: two present files skipped in a run, the second without asking
C12_Witness ==
    \E i, j \in 1..Len(log) :
        /\ i < j
        /\ log[i].existed /\ log[i].asked /\ log[i].outcome = "Skipped"
        /\ log[j].existed /\ ~log[j].asked /\ log[j].outcome = "Skipped"
        /\ log[j].file \in fs
        /\ links = << >>

\* C19 (as claimed): when get_entry finds no entry for a product, the planning
\* of that product fails and none of its files is downloaded, but
\* download_products goes on: it is never left by that error while later
\* products of the list wait.
C19_LookupFailureContinues ==
    ~( /\ pc = "raised"
       /\ ret.raised = "NotFoundError"
       /\ pidx < Len(products) )

\* the keys of the files of the plans of the first n products of batch, in the
\* order of the list and of each plan; a subscription has no file
RECURSIVE PlanKeys(_, _)
PlanKeys(batch, n) ==
    IF n = 0 THEN << >>
    ELSE PlanKeys(batch, n - 1) \o
         ( IF ~IsSecurityDataProduct(batch[n]) THEN << >>
           ELSE LET plan == security_data_files(batch[n], BatchDb)
                IN  IF plan.raised # "" THEN << >>
                    ELSE [ j \in 1..Len(plan.value) |-> PathKey(plan.value[j]) ] )

\* the terminal states of a file
TerminalOutcomes == { "Skipped", "Fetched", "Failed" }

\* C22 (as claimed): when download_products has returned, every planned file
\* of every product was handled exactly once and is in exactly one of the
\* states Skipped, Fetched and Failed.
C22_AllTerminal ==
    pc = "done" =>
        /\ [ i \in 1..Len(log) |-> log[i].file ] = PlanKeys(products, Len(products))
        /\ \A i \in 1..Len(log) : log[i].outcome \in TerminalOutcomes

\* C23: the calls of _download_file follow the list of products and, within a
\* product, its plan: at every moment the files handled so far are the plans
\* of the products before the current one, in order, followed by the first
\* files of the current plan, each handled to its end before the next; a
\* confirmation is asked at a file that is present and that no present file
\* precedes in that order, and without overwrite_flag the first present file
\* is where it is asked.
C23_InOrder ==
    /\ [ i \in 1..Len(log) |-> log[i].file ] =
           IF pc = "files"
           THEN PlanKeys(products, pidx - 1)
                \o [ j \in 1..fidx |-> PathKey(files[j]) ]
           ELSE PlanKeys(products, pidx)
    /\ pc = "files" =>
           /\ fidx < Len(files)
           /\ PlanKeys(products, pidx) =
                  PlanKeys(products, pidx - 1)
                  \o [ j \in 1..Len(files) |-> PathKey(files[j]) ]
    /\ \A i \in 1..Len(log) :
           /\ log[i].asked =>
                  log[i].existed /\ \A j \in 1..(i - 1) : ~log[j].existed
           /\ ( /\ ~overwrite_flag
                /\ log[i].existed
                /\ \A j \in 1..(i - 1) : ~log[j].existed ) => log[i].asked

\* C23 witness: a returned run of two products with files; the second file of
\* the first product was absent, the confirmation was asked at the first file
\* of the second product
C23_Witness ==
    /\ pc = "done"
    /\ Len(products) = 2
    /\ Len(log) >= 4
    /\ \E i \in 3..Len(log) :
           /\ log[i].asked
           /\ PlanKeys(products, 1) = [ j \in 1..(i - 1) |-> log[j].file ]
           /\ ~log[i - 1].existed

-----------------------------------------------------------------------------
(* Specification SpecRuns: download_products called again on the same       *)
(* DataDownloader                                                           *)

\* largest number of calls of download_products on the DataDownloader
MaxRuns == 2

\* the state of Init; arg also counts the calls of download_products
InitRuns ==
    /\ products \in Batches
    /\ overwrite_flag \in BOOLEAN
    /\ force_overwrite = None
    /\ fs \in SUBSET PlannedFiles(products)
    /\ pidx = 0
    /\ files = << >>
    /\ fidx = 0
    /\ prompts = 0
    /\ links = << >>
    /\ log = << >>
    /\ pc = "products"
    /\ arg = [ db |-> BatchDb, run |-> 1 ]
    /\ ret = Returned(<< >>)

\* download_products is called again after it returned: new products and a new
\* overwrite_flag, the same object, so _force_overwrite is what the call
\* before left (nothing of download_products assigns it); prompts, links and
\* log count from the start of the call
DownloadProductsAgain ==
    /\ pc = "done"
    /\ arg.run < MaxRuns
    /\ products' \in Batches
    /\ overwrite_flag' \in BOOLEAN
    /\ pidx' = 0
    /\ files' = << >>
    /\ fidx' = 0
    /\ prompts' = 0
    /\ links' = << >>
    /\ log' = << >>
    /\ pc' = "products"
    /\ arg' = [arg EXCEPT !.run = @ + 1]
    /\ ret' = Returned(<< >>)
    /\ UNCHANGED <<force_overwrite, fs>>

NextRuns ==
    \/ Next
    \/ DownloadProductsAgain

SpecRuns == InitRuns /\ [][NextRuns]_vars

\* C20 (as claimed): every call of download_products starts with the decision
\* flag unset, whatever an earlier call on the same DataDownloader decided, so
\* a call without overwrite_flag asks once as soon as it finds a file present.
C20_RunStartsUnset ==
    /\ (pc = "products" /\ pidx = 0) => force_overwrite = None
    /\ (~overwrite_flag /\ Encounters # {}) => prompts = 1

-----------------------------------------------------------------------------
(* Specification SpecFetch: the statements of _download_file after line 142, *)
(* lines 144-159 as they are written, one step per statement, on one file.   *)
(* The return of line 142 keeps download_products from reaching them.        *)

\* the relative files of the plans of the batch products
FetchPaths ==
    UNION { LET plan == security_data_files(product, BatchDb)
            IN  IF plan.raised # "" THEN {} ELSE Range(plan.value)
            : product \in { q \in BatchCatalogue : IsSecurityDataProduct(q) } }

\* the test of lines 152-154 that never finds the message
is_not_found_Never(response) == FALSE

\* lines 152-154: a JSON body whose message holds "Not found"
is_not_found(response) == response = "not_found"

\* the key of local_path
LocalFile == PathKey(arg.relative_file)

\* arg.present is what the data directory holds when the call starts, log the
\* calls made on the file system, in order
InitFetch ==
    /\ products = << >>
    /\ overwrite_flag = FALSE
    /\ force_overwrite = None
    /\ pidx = 0
    /\ files = << >>
    /\ fidx = 0
    /\ prompts = 0
    /\ links = << >>
    /\ log = << >>
    /\ pc = "get_link"
    /\ \E relative_file \in FetchPaths, transport_ok \in BOOLEAN :
           \E present \in SUBSET { PathKey(relative_file) } :
               /\ arg = [ relative_file |-> relative_file,
                          transport_ok |-> transport_ok, present |-> present ]
               /\ fs = present
    /\ ret = Returned(<< >>)

\* lines 144-145: the link of the file is requested
GetLink ==
    /\ pc = "get_link"
    /\ links' = Append(links, LocalFile)
    /\ pc' = "mkdir"
    /\ UNCHANGED <<products, overwrite_flag, force_overwrite, fs, pidx, files,
                   fidx, prompts, log, arg, ret>>

\* line 147: local_path.parent.mkdir(parents=True, exist_ok=True)
Mkdir ==
    /\ pc = "mkdir"
    /\ log' = Append(log, "mkdir")
    /\ pc' = "get"
    /\ UNCHANGED <<products, overwrite_flag, force_overwrite, fs, pidx, files,
                   fidx, prompts, links, arg, ret>>

\* lines 149-150: requests.get and raise_for_status
Get ==
    /\ pc = "get"
    /\ IF response_for(LocalFile, arg.transport_ok) = "error"
       THEN pc' = "raised" /\ ret' = Raised("HTTPError")
       ELSE pc' = "check" /\ ret' = ret
    /\ UNCHANGED <<products, overwrite_flag, force_overwrite, fs, pidx, files,
                   fidx, prompts, links, log, arg>>

\* lines 152-156: on the "Not found" message the warning is built from
\* file.path, and file is no name of that scope: NameError, before the return
CheckNotFound ==
    /\ pc = "check"
    /\ IF is_not_found(response_for(LocalFile, arg.transport_ok))
       THEN pc' = "raised" /\ ret' = Raised("NameError")
       ELSE pc' = "open" /\ ret' = ret
    /\ UNCHANGED <<products, overwrite_flag, force_overwrite, fs, pidx, files,
                   fidx, prompts, links, log, arg>>

\* line 158: local_path.open("wb+") creates the file or truncates it
Open ==
    /\ pc = "open"
    /\ fs' = fs \cup { LocalFile }
    /\ log' = Append(log, "open")
    /\ pc' = "write"
    /\ UNCHANGED <<products, overwrite_flag, force_overwrite, pidx, files, fidx,
                   prompts, links, arg, ret>>

\* line 159: f.write(response.content), then the file is closed
Write ==
    /\ pc = "write"
    /\ log' = Append(log, "write")
    /\ pc' = "fetched"
    /\ UNCHANGED <<products, overwrite_flag, force_overwrite, fs, pidx, files,
                   fidx, prompts, links, arg, ret>>

\* the process dies between two statements
Crash ==
    /\ pc \in { "get_link", "mkdir", "get", "check", "open", "write" }
    /\ pc' = "crashed"
    /\ UNCHANGED <<products, overwrite_flag, force_overwrite, fs, pidx, files,
                   fidx, prompts, links, log, arg, ret>>

NextFetch ==
    \/ GetLink
    \/ Mkdir
    \/ Get
    \/ CheckNotFound
    \/ Open
    \/ Write
    \/ Crash

SpecFetch == InitFetch /\ [][NextFetch]_vars

\* the file at local_path was opened with "wb+" and nothing was written yet:
\* it holds neither what it held before nor the bytes of the response
Truncated == LocalFile \in fs /\ log # << >> /\ log[Len(log)] = "open"

-----------------------------------------------------------------------------
(* Catalog: SecurityType.get_data_types, get_markets and get_resolutions *)

DataTypes == { "Trade", "Quote", "OpenInterest", "MapFactor", "Coarse" }

\* SecurityType.get_data_types
get_data_types(security_type) ==
    CASE security_type = "CFD" -> << "Quote" >>
      [] security_type = "Crypto" -> << "Trade", "Quote" >>
      [] security_type = "Equity" -> << "Trade", "Quote", "MapFactor", "Coarse" >>
      [] security_type = "EquityOption" -> << "Trade", "Quote", "OpenInterest" >>
      [] security_type = "Forex" -> << "Quote" >>
      [] security_type = "Future" -> << "Trade", "Quote", "OpenInterest" >>
      [] security_type = "FutureOption" -> << "Trade", "Quote", "OpenInterest" >>
      [] security_type = "Index" -> << "Trade" >>
      [] security_type = "IndexOption" -> << "Trade", "Quote", "OpenInterest" >>

\* get_markets whose list for Future lacks NYMEX
get_markets_FutureNoNymex(security_type) ==
    CASE security_type = "CFD" -> << "Oanda" >>
      [] security_type = "Crypto" -> << "Bitfinex", "GDAX" >>
      [] security_type = "Equity" -> << "USA" >>
      [] security_type = "EquityOption" -> << "USA" >>
      [] security_type = "Forex" -> << "FXCM", "Oanda" >>
      [] security_type = "Future" -> << "CBOE", "CBOT", "CME", "COMEX" >>
      [] security_type = "FutureOption" -> << "CBOT", "CME", "COMEX", "NYMEX" >>
      [] security_type = "Index" -> << "USA" >>
      [] security_type = "IndexOption" -> << "USA" >>

\* SecurityType.get_markets
get_markets(security_type) ==
    CASE security_type = "CFD" -> << "Oanda" >>
      [] security_type = "Crypto" -> << "Bitfinex", "GDAX" >>
      [] security_type = "Equity" -> << "USA" >>
      [] security_type = "EquityOption" -> << "USA" >>
      [] security_type = "Forex" -> << "FXCM", "Oanda" >>
      [] security_type = "Future" -> << "CBOE", "CBOT", "CME", "COMEX", "NYMEX" >>
      [] security_type = "FutureOption" -> << "CBOT", "CME", "COMEX", "NYMEX" >>
      [] security_type = "Index" -> << "USA" >>
      [] security_type = "IndexOption" -> << "USA" >>

all_resolutions == << "Tick", "Second", "Minute", "Hour", "Daily" >>

\* get_resolutions that gives Equity every resolution for every data type
get_resolutions_EquityAll(security_type, data_type) ==
    CASE security_type \in { "CFD", "Crypto", "Equity", "Forex", "Index" }
           -> all_resolutions
      [] security_type \in { "EquityOption", "FutureOption", "IndexOption" }
           -> << "Minute" >>
      [] security_type = "Future" -> << "Tick", "Second", "Minute" >>

\* SecurityType.get_resolutions
get_resolutions(security_type, data_type) ==
    CASE security_type = "CFD" -> all_resolutions
      [] security_type = "Crypto" -> all_resolutions
      [] security_type = "Equity" ->
             IF data_type = "Trade" THEN all_resolutions
             ELSE << "Tick", "Second", "Minute" >>
      [] security_type = "EquityOption" -> << "Minute" >>
      [] security_type = "Forex" -> all_resolutions
      [] security_type = "Future" -> << "Tick", "Second", "Minute" >>
      [] security_type = "FutureOption" -> << "Minute" >>
      [] security_type = "Index" -> all_resolutions
      [] security_type = "IndexOption" -> << "Minute" >>

-----------------------------------------------------------------------------
(* Product selection: _select_products and _display_products of            *)
(* lean/commands/data/download.py                                           *)

UpperChar(c) ==
    IF \E i \in 1..26 : LowerCase[i] = c
    THEN UpperCase[CHOOSE i \in 1..26 : LowerCase[i] = c]
    ELSE c

\* str.upper()
Upper(s) == [i \in 1..Len(s) |-> UpperChar(s[i])]

\* _future_option_to_future: the ticker of the underlying future
future_option_to_future ==
    "OEH" :> << "E","H" >> @@ "OKE" :> << "K","E" >> @@
    "OTN" :> << "T","N" >> @@ "OUB" :> << "U","B" >> @@
    "OYM" :> << "Y","M" >> @@ "OZB" :> << "Z","B" >> @@
    "OZC" :> << "Z","C" >> @@ "OZF" :> << "Z","F" >> @@
    "OZL" :> << "Z","L" >> @@ "OZM" :> << "Z","M" >> @@
    "OZN" :> << "Z","N" >> @@ "OZO" :> << "Z","O" >> @@
    "OZS" :> << "Z","S" >> @@ "OZT" :> << "Z","T" >> @@
    "OZW" :> << "Z","W" >> @@ "RTO" :> << "R","T","Y" >> @@
    "OG" :> << "G","C" >> @@ "HXE" :> << "H","G" >> @@
    "SO" :> << "S","I" >> @@ "LO" :> << "C","L" >> @@
    "HCO" :> << "H","C","L" >> @@ "OH" :> << "H","O" >> @@
    "ON" :> << "N","G" >> @@ "PAO" :> << "P","A" >> @@
    "PO" :> << "P","L" >> @@ "OB" :> << "R","B" >>

\* DataType.is_subscription
is_subscription(data_type) == data_type = "MapFactor" \/ data_type = "Coarse"

\* Logger.prompt_list: the value of one of the options shown
prompt_list(options) == Range(options)

\* line 144 that skips nothing
data_types_to_skip_Nothing(batch) == {}

\* line 144: the subscriptions the batch already holds
data_types_to_skip(batch) ==
    { batch[i].data_type : i \in { k \in 1..Len(batch) :
                                      is_subscription(batch[k].data_type) } }

\* lines 146-149: the data types offered for the security type
offered_data_types(security_type, batch) ==
    SelectSeq(get_data_types(security_type),
              LAMBDA x : x \notin data_types_to_skip(batch))

\* lines 164-169 that forget the index options
option_style_of_NoIndexOption(security_type, answer) ==
    IF security_type \in { "EquityOption", "FutureOption" }
    THEN Some(answer) ELSE None

\* lines 164-169: the option style is asked for the three option types only
option_style_of(security_type, answer) ==
    IF security_type \in { "EquityOption", "FutureOption", "IndexOption" }
    THEN Some(answer) ELSE None

\* the loop of lines 178-183 that takes every end date
end_date_accepted_Any(start_date, end_date) == TRUE

\* lines 178-183: the end date is asked again while end_date <= start_date
end_date_accepted(start_date, end_date) == ~(end_date <= start_date)

\* lines 171-189: the dates of the product; start is the answer of the first
\* prompt (None when left empty), end the end date that was accepted
dates_of_answers(resolution, start, end) ==
    IF resolution # "Hour" /\ resolution # "Daily"
    THEN IF ~IsNone(start) THEN << start, Some(end) >> ELSE << None, None >>
    ELSE << None, None >>

\* lines 191-199 and 216-224: SecurityDataProduct(...)
SecurityDataProduct(security_type, data_type, market, resolution, ticker, dates, option_style) ==
    [ security_type |-> security_type, data_type |-> data_type,
      market |-> market, resolution |-> resolution, ticker |-> ticker,
      start_date |-> dates[1], end_date |-> dates[2],
      option_style |-> option_style, expiry_dates_by_data_date |-> None ]

\* lines 202-224: the underlying future of a future option, when its ticker is
\* known, no such product is in the batch and the user agrees
underlying_products(batch, product, add_underlying) ==
    IF product.security_type # "FutureOption" THEN << >>
    ELSE LET key == Str(Upper(product.ticker))
             underlying_known == key \in DOMAIN future_option_to_future
             underlying_future == future_option_to_future[key]
             underlying_added ==
                 /\ underlying_known
                 /\ \E i \in 1..Len(batch) :
                        /\ IsSecurityDataProduct(batch[i])
                        /\ batch[i].security_type = "Future"
                        /\ batch[i].data_type = product.data_type
                        /\ batch[i].ticker = underlying_future
         IN  IF underlying_known /\ ~underlying_added /\ add_underlying
             THEN << SecurityDataProduct("Future", product.data_type,
                         product.market, product.resolution, underlying_future,
                         << product.start_date, product.end_date >>, None) >>
             ELSE << >>

\* lines 226-229 that look for a Coarse subscription instead
map_factor_products_CoarseLooked(batch, security_type) ==
    IF security_type = "Equity"
       /\ ~\E i \in 1..Len(batch) : batch[i].data_type = "Coarse"
    THEN << Subscription("MapFactor") >> ELSE << >>

\* lines 226-229: the MapFactor subscription added for equity data
map_factor_products(batch, security_type) ==
    IF security_type = "Equity"
       /\ ~\E i \in 1..Len(batch) : batch[i].data_type = "MapFactor"
    THEN << Subscription("MapFactor") >> ELSE << >>

\* datetime(2000, 1, 1) as a day number: 7471 days before Epoch
Year2000 == -7471

\* _display_products, lines 67-78, on one product: the default dates and the
\* empty expiry mapping (price and purchased are display data, left out)
displayed(product) ==
    IF ~IsSecurityDataProduct(product) THEN product
    ELSE LET dated ==
                 IF IsNone(product.start_date)
                 THEN [product EXCEPT !.start_date = Some(Year2000),
                                      !.end_date = Some(Now)]
                 ELSE product
         IN  IF dated.security_type = "FutureOption"
                /\ IsNone(dated.expiry_dates_by_data_date)
             THEN [dated EXCEPT !.expiry_dates_by_data_date =
                                    Some([ d \in {} |-> << >> ])]
             ELSE dated

\* _display_products on the batch
display_products(batch) == [ i \in 1..Len(batch) |-> displayed(batch[i]) ]

-----------------------------------------------------------------------------
(* Specification SpecCatalog: the three catalog methods, called repeatedly *)

\* largest number of calls of the method on the same arguments
MaxCalls == 2

CatalogMethods == { "get_data_types", "get_markets", "get_resolutions" }

InitCatalog ==
    /\ IdleDownloader
    /\ pc = "call"
    /\ arg \in [ method : CatalogMethods, security_type : SecurityTypes,
                 data_type : DataTypes ]
    /\ ret = Returned(<< >>)

\* ret.value collects what the calls returned, in the order of the calls
GetDataTypes ==
    /\ pc = "call"
    /\ arg.method = "get_data_types"
    /\ Len(ret.value) < MaxCalls
    /\ ret' = Returned(Append(ret.value, get_data_types(arg.security_type)))
    /\ UNCHANGED <<pc, arg, downloaderVars>>

GetMarkets ==
    /\ pc = "call"
    /\ arg.method = "get_markets"
    /\ Len(ret.value) < MaxCalls
    /\ ret' = Returned(Append(ret.value, get_markets(arg.security_type)))
    /\ UNCHANGED <<pc, arg, downloaderVars>>

GetResolutions ==
    /\ pc = "call"
    /\ arg.method = "get_resolutions"
    /\ Len(ret.value) < MaxCalls
    /\ ret' = Returned(Append(ret.value,
                              get_resolutions(arg.security_type, arg.data_type)))
    /\ UNCHANGED <<pc, arg, downloaderVars>>

NextCatalog ==
    \/ GetDataTypes
    \/ GetMarkets
    \/ GetResolutions

SpecCatalog == InitCatalog /\ [][NextCatalog]_vars

-----------------------------------------------------------------------------
(* Claims on the catalog, checked under SpecCatalog *)

\* the taxonomy table: the data types, markets and resolutions for sale
TableDataTypes(security_type) ==
    IF security_type \in { "CFD", "Forex" } THEN { "Quote" }
    ELSE IF security_type = "Index" THEN { "Trade" }
    ELSE IF security_type = "Crypto" THEN { "Quote", "Trade" }
    ELSE IF security_type = "Equity" THEN { "Coarse", "MapFactor", "Quote", "Trade" }
    ELSE { "OpenInterest", "Quote", "Trade" }

TableMarkets(security_type) ==
    IF security_type \in { "Equity", "EquityOption", "Index", "IndexOption" }
    THEN { "USA" }
    ELSE IF security_type = "CFD" THEN { "Oanda" }
    ELSE IF security_type = "Forex" THEN { "Oanda", "FXCM" }
    ELSE IF security_type = "Crypto" THEN { "GDAX", "Bitfinex" }
    ELSE { "NYMEX", "COMEX", "CME", "CBOT" }
         \cup (IF security_type = "Future" THEN { "CBOE" } ELSE {})

TableResolutions(security_type, data_type) ==
    IF security_type \in { "EquityOption", "FutureOption", "IndexOption" }
    THEN { "Minute" }
    ELSE { "Tick", "Second", "Minute" }
         \cup (IF \/ security_type \in { "CFD", "Crypto", "Forex", "Index" }
                  \/ security_type = "Equity" /\ data_type = "Trade"
               THEN { "Hour", "Daily" } ELSE {})

\* C17: for every security type (and every data type), each call of
\* get_data_types, get_markets and get_resolutions returns a non-empty list
\* without duplicates whose elements are, as a set, those of the taxonomy table:
\* Hour and Daily for Equity only with Trade data, Minute alone for the three
\* option types, Tick/Second/Minute for Future; a repeated call returns the same.
C17_Catalog ==
    \A i \in 1..Len(ret.value) :
        LET result == ret.value[i]
        IN  /\ result # << >>
            /\ Cardinality(Range(result)) = Len(result)
            /\ result = ret.value[1]
            /\ Range(result) =
                   CASE arg.method = "get_data_types" ->
                            TableDataTypes(arg.security_type)
                     [] arg.method = "get_markets" ->
                            TableMarkets(arg.security_type)
                     [] arg.method = "get_resolutions" ->
                            TableResolutions(arg.security_type, arg.data_type)

\* C17 witness: get_resolutions of Equity called twice for Quote data gave
\* Tick, Second and Minute both times
C17_Witness ==
    /\ arg.method = "get_resolutions"
    /\ arg.security_type = "Equity"
    /\ arg.data_type = "Quote"
    /\ Len(ret.value) = 2
    /\ Range(ret.value[2]) = { "Tick", "Second", "Minute" }

-----------------------------------------------------------------------------
(* Specification SpecSelect: the loop of _select_products, one action per    *)
(* iteration, the answers of the user drawn from SelectAnswers               *)

\* largest number of iterations of the loop
MaxSelections == 2

\* the first and the last element of a list
Ends(list) == { list[1], list[Len(list)] }

PerSecurity == { "Trade", "Quote", "OpenInterest" }

\* the ticker entered for a security type: LO is a future option with the
\* underlying future CL
DefaultTicker(security_type) ==
    IF security_type = "FutureOption" THEN << "L","O" >>
    ELSE IF security_type = "Future" THEN << "C","L" >>
    ELSE << "S","P","Y" >>

\* the answers of one iteration: start_date None is the start prompt left
\* empty, end_date the answer of the end prompt
Answers(security_type, data_type, market, resolution, ticker, option_style, start_date, end_date, add_underlying) ==
    [ security_type |-> security_type, data_type |-> data_type,
      market |-> market, resolution |-> resolution, ticker |-> ticker,
      option_style |-> option_style, start_date |-> start_date,
      end_date |-> end_date, add_underlying |-> add_underlying ]

\* for every security type and per-security data type, the first and the last
\* market and resolution offered, with dates 2020-06-15 to 2020-06-16
CoverageAnswers ==
    UNION { { Answers(st, dt, m, r, DefaultTicker(st), "American", Some(0), 1, TRUE) :
                m \in Ends(get_markets(st)), r \in Ends(get_resolutions(st, dt)) } :
            <<st, dt>> \in { sd \in SecurityTypes \X PerSecurity :
                               sd[2] \in Range(get_data_types(sd[1])) } }

\* the other answers: no dates, an end date not after the start date, the
\* European style, a declined underlying future, a future option ticker in
\* lowercase and one without a known underlying, every market of the future
\* options
VariationAnswers ==
    { Answers("Equity", "Trade", "USA", "Minute", << "S","P","Y" >>, "American",
              start, end, TRUE) :
        <<start, end>> \in { << None, 0 >>, << Some(1), 0 >>, << Some(1), 1 >> } }
    \cup
    { Answers(st, "Trade", get_markets(st)[1], "Minute", DefaultTicker(st),
              "European", None, 0, TRUE) :
        st \in { "EquityOption", "FutureOption", "IndexOption" } }
    \cup
    { Answers("FutureOption", "Quote", market, "Minute", ticker, "American",
              Some(0), 1, add_underlying) :
        market \in Range(get_markets("FutureOption")),
        ticker \in { << "l","o" >>, << "E","S" >> },
        add_underlying \in BOOLEAN }

\* the answers that choose a subscription: only Equity offers them
SubscriptionAnswers ==
    { Answers("Equity", dt, "USA", "Daily", << >>, "American", None, 0, FALSE) :
        dt \in { "MapFactor", "Coarse" } }

SelectAnswers == CoverageAnswers \cup VariationAnswers \cup SubscriptionAnswers

\* products is the list of _select_products after _display_products, log the
\* products in the order and the state of their construction, pidx the number
\* of iterations
InitSelect ==
    /\ products = << >>
    /\ overwrite_flag = FALSE
    /\ force_overwrite = None
    /\ fs = {}
    /\ pidx = 0
    /\ files = << >>
    /\ fidx = 0
    /\ prompts = 0
    /\ links = << >>
    /\ log = << >>
    /\ pc = "select"
    /\ arg = << >>
    /\ ret = Returned(<< >>)

\* one iteration with a per-security data type, lines 139-229 and 233-237
SelectSecurityData ==
    /\ pc = "select"
    /\ pidx < MaxSelections
    /\ \E a \in SelectAnswers, another \in BOOLEAN :
         /\ a.security_type \in SecurityTypes
         /\ a.data_type \in prompt_list(offered_data_types(a.security_type, products))
         /\ a.data_type = "Trade" \/ a.data_type = "Quote"
                \/ a.data_type = "OpenInterest"
         /\ a.market \in prompt_list(get_markets(a.security_type))
         /\ a.resolution \in
                prompt_list(get_resolutions(a.security_type, a.data_type))
         /\ ( a.resolution # "Hour" /\ a.resolution # "Daily"
                /\ ~IsNone(a.start_date) )
                => end_date_accepted(Val(a.start_date), a.end_date)
         /\ LET product ==
                    SecurityDataProduct(a.security_type, a.data_type, a.market,
                        a.resolution, a.ticker,
                        dates_of_answers(a.resolution, a.start_date, a.end_date),
                        option_style_of(a.security_type, a.option_style))
                with_underlying ==
                    << product >>
                    \o underlying_products(products \o << product >>, product,
                                           a.add_underlying)
                appended ==
                    with_underlying
                    \o map_factor_products(products \o with_underlying,
                                           a.security_type)
            IN  /\ products' = display_products(products \o appended)
                /\ log' = log \o appended
         /\ pc' = IF another THEN "select" ELSE "done"
    /\ pidx' = pidx + 1
    /\ UNCHANGED <<overwrite_flag, force_overwrite, fs, files, fidx, prompts,
                   links, arg, ret>>

\* one iteration with a subscription data type, lines 139-149 and 230-237
SelectSubscription ==
    /\ pc = "select"
    /\ pidx < MaxSelections
    /\ \E a \in SelectAnswers, another \in BOOLEAN :
         /\ a.security_type \in SecurityTypes
         /\ a.data_type \in prompt_list(offered_data_types(a.security_type, products))
         /\ ~( a.data_type = "Trade" \/ a.data_type = "Quote"
                 \/ a.data_type = "OpenInterest" )
         /\ products' = display_products(Append(products, Subscription(a.data_type)))
         /\ log' = Append(log, Subscription(a.data_type))
         /\ pc' = IF another THEN "select" ELSE "done"
    /\ pidx' = pidx + 1
    /\ UNCHANGED <<overwrite_flag, force_overwrite, fs, files, fidx, prompts,
                   links, arg, ret>>

NextSelect ==
    \/ SelectSecurityData
    \/ SelectSubscription

SpecSelect == InitSelect /\ [][NextSelect]_vars

-----------------------------------------------------------------------------
(* Claims on the selection loop, checked under SpecSelect *)

\* the positions of the SecurityDataProducts of a list of products
SecurityDataAt(batch) == { i \in 1..Len(batch) : IsSecurityDataProduct(batch[i]) }

\* the number of products of the batch with the data type
CountOf(data_type) ==
    Cardinality({ i \in 1..Len(products) : products[i].data_type = data_type })

\* C24: after every iteration of the loop of _select_products the batch holds
\* at most one product with data type MapFactor and at most one with data type
\* Coarse, the MapFactor product added for equity data counted.
C24_OneSubscriptionEach ==
    CountOf("MapFactor") <= 1 /\ CountOf("Coarse") <= 1

\* C24 witness: MapFactor and Coarse were chosen, in two iterations
C24_Witness ==
    /\ pidx = 2
    /\ log = << Subscription("MapFactor"), Subscription("Coarse") >>
    /\ CountOf("MapFactor") = 1
    /\ CountOf("Coarse") = 1

\* C25: after every iteration, a batch that holds a SecurityDataProduct of
\* security type Equity holds a MapFactor subscription as well.
C25_EquityHasMapFactor ==
    (\E i \in SecurityDataAt(products) : products[i].security_type = "Equity")
        => \E j \in 1..Len(products) :
               /\ ~IsSecurityDataProduct(products[j])
               /\ products[j].data_type = "MapFactor"

\* C25 witness: Coarse was chosen first, then equity data, and the MapFactor
\* subscription was added after it
C25_Witness ==
    /\ pidx = 2
    /\ Len(products) = 3
    /\ products[1] = Subscription("Coarse")
    /\ IsSecurityDataProduct(products[2]) /\ products[2].security_type = "Equity"
    /\ products[3] = Subscription("MapFactor")

\* C26: every SecurityDataProduct of the batch, as constructed and as it stands
\* in the batch, the underlying Future added after a FutureOption included, has
\* its data type in get_data_types(), its market in get_markets() and its
\* resolution in get_resolutions(data type) of its security type.
C26_CatalogAllowed ==
    \A batch \in { products, log } :
        \A i \in SecurityDataAt(batch) :
            LET product == batch[i]
            IN  /\ product.data_type \in Range(get_data_types(product.security_type))
                /\ product.market \in Range(get_markets(product.security_type))
                /\ product.resolution \in
                       Range(get_resolutions(product.security_type, product.data_type))

\* C26 witness: future option quotes of NYMEX were chosen under the ticker lo
\* and the underlying future CL was added with the same market and resolution
C26_Witness ==
    /\ Len(products) = 2
    /\ products[1].security_type = "FutureOption"
    /\ products[1].market = "NYMEX"
    /\ products[1].ticker = << "l","o" >>
    /\ products[2].security_type = "Future"
    /\ products[2].ticker = << "C","L" >>
    /\ products[2].market = "NYMEX"
    /\ products[2].resolution = "Minute"
    /\ products[2].data_type = "Quote"

\* C27: every SecurityDataProduct of the batch, as constructed and as it stands
\* in the batch, has an option style exactly when its security type is
\* EquityOption, FutureOption or IndexOption, and None otherwise; so has the
\* underlying Future added after a FutureOption.
C27_OptionStyle ==
    \A batch \in { products, log } :
        \A i \in SecurityDataAt(batch) :
            /\ ~IsNone(batch[i].option_style) <=>
                   batch[i].security_type \in
                       { "EquityOption", "FutureOption", "IndexOption" }
            /\ ~IsNone(batch[i].option_style) =>
                   Val(batch[i].option_style) \in OptionStyles

\* C27 witness: index option data and future option data with their style,
\* the underlying future of the second without one
C27_Witness ==
    /\ Len(products) = 3
    /\ products[1].security_type = "IndexOption"
    /\ products[1].option_style = Some("European")
    /\ products[2].security_type = "FutureOption"
    /\ products[2].option_style = Some("American")
    /\ products[3].security_type = "Future"
    /\ products[3].option_style = None

\* C28: every SecurityDataProduct has start_date and end_date both None or
\* both set, and end_date >= start_date when set, as constructed by
\* _select_products and after _display_products has filled in the default
\* dates; after _display_products both are set.
C28_DatesPaired ==
    /\ \A batch \in { products, log } :
           \A i \in SecurityDataAt(batch) :
               /\ IsNone(batch[i].start_date) <=> IsNone(batch[i].end_date)
               /\ ~IsNone(batch[i].start_date) =>
                      Val(batch[i].end_date) >= Val(batch[i].start_date)
    /\ \A i \in SecurityDataAt(products) : ~IsNone(products[i].start_date)

\* C28 witness: equity data chosen without dates and then with 2020-06-15 to
\* 2020-06-16: the first constructed without dates and displayed with
\* 2000-01-01 to now
C28_Witness ==
    /\ Len(log) = 3
    /\ log[1].security_type = "Equity"
    /\ log[1].start_date = None /\ log[1].end_date = None
    /\ products[1].start_date = Some(Year2000) /\ products[1].end_date = Some(Now)
    /\ products[3].security_type = "Equity"
    /\ products[3].start_date = Some(0) /\ products[3].end_date = Some(1)

=============================================================================
